---- MODULE Spec2Model ----
(***************************************************************************)
(* A model of QJS (src/src/q.js): the decorator chain built by trace(),    *)
(* time() and breakBefore(), the three calling forms of _decorate, the     *)
(* shims' behaviour when a decorated function is invoked, the DEBUG flag,  *)
(* _prettyPrint and the immediate inspector q().                           *)
(*                                                                         *)
(* Function objects live in `heap` (a sequence; a reference is an index).  *)
(* The JavaScript call stack is `stack`; one step of the model runs the    *)
(* code of the top frame up to its next call, return or throw.             *)
(***************************************************************************)
EXTENDS Integers, Sequences, FiniteSets, TLC

\* ------------------------------------------------------------------ bounds
MaxDecorators == 2      \* decorator records created in one run
MaxCalls == 2           \* invocations the host program starts
MaxDepth == 1           \* largest argument given to the recursive method

VARIABLES
    DEBUG,          \* var DEBUG
    breakpoints,    \* let _breakpoints
    heap,           \* the function objects, originals first
    slots,          \* the members of window and obj that hold functions
    log,            \* the lines written to _stream, without the time prefix
    stack,          \* the call stack, innermost frame last
    result,         \* how the frame that finished last completed
    last,           \* the host program's view of its last API call
    calls,          \* invocations started by the host program
    traps,          \* how often System.breakpoint() was reached
    hist,           \* history of the invocation in progress (ghost)
    thrown          \* whether any frame has ended by an exception (ghost)

vars == <<DEBUG, breakpoints, heap, slots, log, stack, result, last, calls, traps,
          hist, thrown>>

\* ------------------------------------------------------------------ values
Null == 0               \* the absent reference (undefined property)

Val(t, n, s, a) == [t |-> t, n |-> n, s |-> s, a |-> a]
Undefined == Val("undefined", 0, "", <<>>)
JSNull == Val("null", 0, "", <<>>)
Num(n) == Val("number", n, "", <<>>)
Str(s) == Val("string", 0, s, <<>>)
Arr(a) == Val("array", 0, "", a)
Fun == Val("function", 0, "", <<>>)

\* The values the host program inspects with q().
Values == {Undefined, JSNull, Fun, Num(5), Str("hi"), Str("abcdefghijklmnop"),
           Arr(<<5, 5>>), Arr(<<10000, 20000, 30000>>)}

\* The values the host program passes to, and the leaf function returns from,
\* an instrumented call.
CallValues == {Undefined, Num(5)}

\* The exceptions the leaf function may raise.
Exceptions == {"Error"}

\* ------------------------------------------------------------ _prettyPrint
RECURSIVE JoinNums(_, _)
JoinNums(a, sep) ==
    IF Len(a) = 0 THEN ""
    ELSE IF Len(a) = 1 THEN ToString(a[1])
    ELSE ToString(a[1]) \o sep \o JoinNums(Tail(a), sep)

\* JSON.stringify(obj): [def |-> FALSE] stands for the value undefined, which
\* JSON.stringify returns for undefined and for callables.
JSONStringify(v) ==
    CASE v.t = "undefined" -> [def |-> FALSE, s |-> ""]
      [] v.t = "function"  -> [def |-> FALSE, s |-> ""]
      [] v.t = "null"      -> [def |-> TRUE, s |-> "null"]
      [] v.t = "number"    -> [def |-> TRUE, s |-> ToString(v.n)]
      [] v.t = "string"    -> [def |-> TRUE, s |-> "\"" \o v.s \o "\""]
      [] v.t = "array"     -> [def |-> TRUE, s |-> "[" \o JoinNums(v.a, ",") \o "]"]

\* obj.length: [def |-> FALSE] is undefined; reading it off null or undefined
\* is a TypeError, reported as err.
LengthOf(v) ==
    CASE v.t \in {"undefined", "null"} -> [err |-> TRUE, def |-> FALSE, n |-> 0]
      [] v.t = "string"   -> [err |-> FALSE, def |-> TRUE, n |-> Len(v.s)]
      [] v.t = "array"    -> [err |-> FALSE, def |-> TRUE, n |-> Len(v.a)]
      [] v.t = "function" -> [err |-> FALSE, def |-> TRUE, n |-> 0]
      [] OTHER            -> [err |-> FALSE, def |-> FALSE, n |-> 0]

\* _prettyPrint(obj): [ok |-> TRUE, s |-> text], or ok = FALSE when a TypeError
\* is thrown (retval.length with retval undefined; obj.length with obj null).
PrettyPrint(obj) ==
    LET j == JSONStringify(obj)
        cut == IF Len(j.s) > 15 THEN SubSeq(j.s, 1, 12) \o "..." ELSE j.s
        len == LengthOf(obj)
    IN  IF ~j.def THEN [ok |-> FALSE, s |-> ""]
        ELSE IF len.err THEN [ok |-> FALSE, s |-> ""]
        ELSE [ok |-> TRUE,
              s |-> IF len.def THEN cut \o " (length " \o ToString(len.n) \o ")" ELSE cut]

\* -------------------------------------------------------------------- heap
\* A function object.  Originals have isDecorator = FALSE and no tag; the
\* fields of a decorator are those _makeDecorator and the decorators set.
\* funcName is the variable of that name the shim closes over.
FuncObj(isDec, name, tag, wraps, decorated, funcName, bpNum) ==
    [isDecorator |-> isDec, name |-> name, tag |-> tag, wraps |-> wraps,
     decoratedFunc |-> decorated, wrapper |-> Null, funcName |-> funcName,
     recursionDepth |-> 0, breakpointNum |-> bpNum]

\* The host program's functions (the example program): a leaf method and a
\* method that calls itself through this.myRecursiveMethod.
Leaf == 1
Rec == 2
Originals == {Leaf, Rec}
InitHeap == << FuncObj(FALSE, "myMethod", "", Null, Null, "", 0),
               FuncObj(FALSE, "myRecursiveMethod", "", Null, Null, "", 0) >>

Containers == {"window", "obj"}
Slots == {<<"window", "myFunction">>, <<"obj", "myMethod">>,
          <<"obj", "myRecursiveMethod">>}
InitSlots == [s \in Slots |->
                 IF s[2] = "myRecursiveMethod" THEN Rec ELSE Leaf]

Refs(h) == 1 .. Len(h)
Tags == {"trace", "time", "breakBefore"}

\* _isDecoratedWithTag(func, tag)
RECURSIVE IsDecoratedWithTag(_, _, _)
IsDecoratedWithTagNever(h, func, tag) == FALSE
IsDecoratedWithTag(h, func, tag) ==
    IF ~h[func].isDecorator THEN FALSE
    ELSE IF h[func].tag = tag THEN TRUE
    ELSE IsDecoratedWithTag(h, h[func].wraps, tag)

\* _makeDecorator(innerFunc, decoratorFunc, otherProperties): the heap with the
\* new decorator appended; its reference is Len(h) + 1.
MakeDecoratorNoFlatten(h, innerFunc, funcName, tag, bpNum) ==
    Append(IF h[innerFunc].isDecorator
             THEN [h EXCEPT ![innerFunc].wrapper = Len(h) + 1]
             ELSE h,
           FuncObj(TRUE, "", tag, innerFunc, innerFunc, funcName, bpNum))
MakeDecorator(h, innerFunc, funcName, tag, bpNum) ==
    LET new == Len(h) + 1
        inner == h[innerFunc]
        h1 == IF inner.isDecorator
                THEN [h EXCEPT ![innerFunc].wrapper = new]
                ELSE h
        decorated == IF inner.isDecorator THEN inner.decoratedFunc ELSE innerFunc
    IN  Append(h1, FuncObj(TRUE, "", tag, innerFunc, decorated, funcName, bpNum))

\* funcName = func.name || 'anonymous function', when no name is passed.
DisplayName(h, func, funcName) ==
    IF funcName # "" THEN funcName
    ELSE IF h[func].name # "" THEN h[func].name
    ELSE "anonymous function"

\* What a decorator returns: the function, the heap and the breakpoint counter.
Wrapped(fn, h, bp) == [fn |-> fn, heap |-> h, breakpoints |-> bp]

\* _traceDecorator(func, funcName)
TraceDecoratorNoFlag(dbg, h, bp, func, funcName) ==
    IF IsDecoratedWithTag(h, func, "trace") THEN Wrapped(func, h, bp)
    ELSE Wrapped(Len(h) + 1,
                 MakeDecorator(h, func, DisplayName(h, func, funcName), "trace", 0),
                 bp)
TraceDecorator(dbg, h, bp, func, funcName) ==
    IF ~dbg \/ IsDecoratedWithTag(h, func, "trace") THEN Wrapped(func, h, bp)
    ELSE Wrapped(Len(h) + 1,
                 MakeDecorator(h, func, DisplayName(h, func, funcName), "trace", 0),
                 bp)

\* _timeDecorator(func, funcName)
TimeDecorator(dbg, h, bp, func, funcName) ==
    IF ~dbg \/ IsDecoratedWithTag(h, func, "time") THEN Wrapped(func, h, bp)
    ELSE Wrapped(Len(h) + 1,
                 MakeDecorator(h, func, DisplayName(h, func, funcName), "time", 0),
                 bp)

\* _breakBeforeDecorator(func): breakpointNum is ++_breakpoints.
BreakBeforeDecoratorSharedNum(dbg, h, bp, func) ==
    IF ~dbg \/ IsDecoratedWithTag(h, func, "breakBefore") THEN Wrapped(func, h, bp)
    ELSE Wrapped(Len(h) + 1, MakeDecorator(h, func, "", "breakBefore", bp + 1), bp)
BreakBeforeDecorator(dbg, h, bp, func) ==
    IF ~dbg \/ IsDecoratedWithTag(h, func, "breakBefore") THEN Wrapped(func, h, bp)
    ELSE Wrapped(Len(h) + 1, MakeDecorator(h, func, "", "breakBefore", bp + 1), bp + 1)

\* The decorator trace(), time() and breakBefore() hand to _decorate.
Decorator(kind, dbg, h, bp, func, funcName) ==
    CASE kind = "trace" -> TraceDecorator(dbg, h, bp, func, funcName)
      [] kind = "time"  -> TimeDecorator(dbg, h, bp, func, funcName)
      [] kind = "breakBefore" -> BreakBeforeDecorator(dbg, h, bp, func)

\* ------------------------------------------------------------- API calls
\* What the host program sees of its last call of trace(), time(),
\* breakBefore() or q(), or of one of its functions: the function it named
\* (fin), the function returned (fout), the value passed and the value
\* returned, and the exception the call threw, if any.
Last(op, fin, fout, vin, vout, threw) ==
    [op |-> op, fin |-> fin, fout |-> fout, vin |-> vin, vout |-> vout,
     threw |-> threw]
NoCall == Last("none", Null, Null, Undefined, Undefined, "")

Idle == stack = <<>>

\* The host program instruments its functions first and calls them afterwards,
\* as the example program does.
Instrumenting == Idle /\ calls = 0
Room(w) == Len(w.heap) <= Cardinality(Originals) + MaxDecorators

\* _decorate with args = [function]: return decorator(args[0]).
DecorateFn(kind, fn) ==
    LET w == Decorator(kind, DEBUG, heap, breakpoints, fn, "")
    IN  /\ Instrumenting /\ Room(w)
        /\ heap' = w.heap
        /\ breakpoints' = w.breakpoints
        /\ last' = Last(kind, fn, w.fn, Undefined, Undefined, "")
        /\ UNCHANGED <<DEBUG, slots, log, stack, result, calls, traps, hist, thrown>>

\* _decorate with args = ['ident'] (scope = window) or [scope, 'ident']:
\* scope[ident] = decorator(scope[ident], ident); return scope[ident].
StoreSlotAliases(sl, slot, fn) ==
    [s \in Slots |-> IF sl[s] = sl[slot] THEN fn ELSE sl[s]]
StoreSlot(sl, slot, fn) == [sl EXCEPT ![slot] = fn]
DecorateSlot(kind, slot) ==
    LET w == Decorator(kind, DEBUG, heap, breakpoints, slots[slot], slot[2])
        stored == StoreSlot(slots, slot, w.fn)
    IN  /\ Instrumenting /\ Room(w)
        /\ heap' = w.heap
        /\ breakpoints' = w.breakpoints
        /\ slots' = stored
        /\ last' = Last(kind, slots[slot], stored[slot], Undefined, Undefined, "")
        /\ UNCHANGED <<DEBUG, log, stack, result, calls, traps, hist, thrown>>

\* _decorate with no argument or more than two: a TypeError, nothing changes.
DecorateBadArgs(kind) ==
    /\ Instrumenting
    /\ last' = Last(kind, Null, Null, Undefined, Undefined, "TypeError")
    /\ UNCHANGED <<DEBUG, breakpoints, heap, slots, log, stack, result, calls, traps, hist, thrown>>

\* The setter of q.DEBUG, used by the host program between its calls.
SetDebug(value) ==
    /\ Idle /\ DEBUG # value
    /\ DEBUG' = value
    /\ UNCHANGED <<breakpoints, heap, slots, log, stack, result, last, calls, traps, hist, thrown>>

\* ------------------------------------------------------------- invocation
\* A frame of the call stack: the function running, its receiver and its
\* argument, where it stands ("start": not yet run; "called": waiting for the
\* function it called), and the shim's locals depth and traceString.
Frame(fn, this, arg) ==
    [fn |-> fn, this |-> this, arg |-> arg, pc |-> "start", depth |-> 0,
     traceString |-> ""]

\* How a frame completed: a returned value or a thrown exception.
NoResult == [kind |-> "none", val |-> Undefined, exc |-> ""]
Return(v) == [kind |-> "return", val |-> v, exc |-> ""]
Throw(e) == [kind |-> "throw", val |-> Undefined, exc |-> e]

\* An entry of the history of the invocation in progress.
Event(e, fn, this, d, v) ==
    [e |-> e, fn |-> fn, this |-> this, d |-> d, v |-> v, exc |-> ""]
Outcome(fn, this, r) ==
    [e |-> r.kind, fn |-> fn, this |-> this, d |-> 0, v |-> r.val, exc |-> r.exc]

Top == stack[Len(stack)]
Pop == SubSeq(stack, 1, Len(stack) - 1)
Running(tag, pc) ==
    /\ stack # <<>>
    /\ heap[Top.fn].isDecorator /\ heap[Top.fn].tag = tag
    /\ Top.pc = pc
RunningOriginal(fn, pc) == stack # <<>> /\ Top.fn = fn /\ Top.pc = pc

\* The original at the bottom of fn's chain.
Bottom(h, fn) == IF h[fn].isDecorator THEN h[fn].decoratedFunc ELSE fn

\* The arguments the host program passes to a function.
ArgsFor(fn) ==
    IF Bottom(heap, fn) = Rec THEN {Num(n) : n \in 0 .. MaxDepth} ELSE CallValues

\* The host program calls scope.ident(arg): the function in the slot, with
\* the scope as receiver.
InvokeSlot(slot, arg) ==
    /\ Idle /\ calls < MaxCalls
    /\ arg \in ArgsFor(slots[slot])
    /\ calls' = calls + 1
    /\ stack' = <<Frame(slots[slot], slot[1], arg)>>
    /\ result' = NoResult
    /\ last' = Last("invoke", slots[slot], Null, arg, Undefined, "")
    /\ hist' = <<Event("invoke", slots[slot], slot[1], Len(log), arg)>>
    /\ UNCHANGED <<DEBUG, breakpoints, heap, slots, log, traps, thrown>>

\* func.apply(this, arguments) from the top frame: push the callee's frame.
Apply(extra) ==
    Append([stack EXCEPT ![Len(stack)] = extra], Frame(heap[Top.fn].wraps, Top.this, Top.arg))

\* The text of write(...): Array.join(arguments, ' ').
RECURSIVE Join(_)
Join(tokens) ==
    IF Len(tokens) = 1 THEN tokens[1] ELSE tokens[1] \o " " \o Join(Tail(tokens))

\* The trace shim up to func.apply: count the depth, print the arguments, log
\* "Entering".  A TypeError of _prettyPrint leaves the shim at once.
TraceString(name, pp, depth) ==
    LET plain == name \o "(" \o pp \o ")"
    IN  IF depth > 1 THEN plain \o " [" \o ToString(depth) \o "]" ELSE plain

TraceEnter ==
    LET me == Top.fn
        depth == heap[me].recursionDepth + 1
        pp == PrettyPrint(Top.arg)
        ts == TraceString(heap[me].funcName, pp.s, depth)
    IN  /\ Running("trace", "start")
        /\ heap' = [heap EXCEPT ![me].recursionDepth = depth]
        /\ IF pp.ok
           THEN /\ log' = Append(log, Join(<<"Entering", ts>>))
                /\ stack' = Apply([Top EXCEPT !.pc = "called", !.depth = depth,
                                              !.traceString = ts])
                /\ hist' = Append(hist, Event("Entering", me, Top.this, depth, Top.arg))
                /\ UNCHANGED <<result, thrown>>
           ELSE /\ stack' = Pop
                /\ result' = Throw("TypeError")
                /\ thrown' = TRUE
                /\ hist' = Append(hist, Event("TypeError", me, Top.this, depth, Top.arg))
                /\ UNCHANGED log
        /\ UNCHANGED <<DEBUG, breakpoints, slots, last, calls, traps>>

\* The trace shim after func.apply returned: print the value, log "Leaving",
\* count the depth down, return the value.
AfterLeavingNoDecrement(h, me) == h
AfterLeaving(h, me) == [h EXCEPT ![me].recursionDepth = @ - 1]
TraceLeave ==
    LET me == Top.fn
        pp == PrettyPrint(result.val)
    IN  /\ Running("trace", "called") /\ result.kind = "return"
        /\ stack' = Pop
        /\ IF pp.ok
           THEN /\ log' = Append(log, Join(<<"Leaving", Top.traceString, "->", pp.s>>))
                /\ heap' = AfterLeaving(heap, me)
                /\ hist' = Append(hist, Event("Leaving", me, Top.this, Top.depth, result.val))
                /\ UNCHANGED <<result, thrown>>
           ELSE /\ result' = Throw("TypeError")
                /\ thrown' = TRUE
                /\ hist' = Append(hist, Event("TypeError", me, Top.this, Top.depth, result.val))
                /\ UNCHANGED <<log, heap>>
        /\ UNCHANGED <<DEBUG, breakpoints, slots, last, calls, traps>>

\* The time shim: read the clock and call ...
TimeEnter ==
    /\ Running("time", "start")
    /\ stack' = Apply([Top EXCEPT !.pc = "called"])
    /\ hist' = Append(hist, Event("timer", Top.fn, Top.this, 0, Top.arg))
    /\ UNCHANGED <<DEBUG, breakpoints, heap, slots, log, result, last, calls, traps, thrown>>

\* ... read it again, log the difference, return the value.  The difference
\* of the two clock readings is not modelled: the line carries "T" for it.
TimeLeave ==
    /\ Running("time", "called") /\ result.kind = "return"
    /\ stack' = Pop
    /\ log' = Append(log, Join(<<heap[Top.fn].funcName, "executed in",
                                 "T", "microseconds">>))
    /\ hist' = Append(hist, Event("timed", Top.fn, Top.this, 0, result.val))
    /\ UNCHANGED <<DEBUG, breakpoints, heap, slots, result, last, calls, traps, thrown>>

\* The breakBefore shim: log the breakpoint, trap, call ...
BreakLine(h, me) == Join(<<"Breakpoint", ToString(h[me].breakpointNum), "reached">>)
BreakEnter ==
    /\ Running("breakBefore", "start")
    /\ log' = Append(log, BreakLine(heap, Top.fn))
    /\ traps' = traps + 1
    /\ stack' = Apply([Top EXCEPT !.pc = "called"])
    /\ hist' = hist \o <<Event("Breakpoint", Top.fn, Top.this,
                               heap[Top.fn].breakpointNum, Top.arg),
                         Event("trap", Top.fn, Top.this, 0, Top.arg)>>
    /\ UNCHANGED <<DEBUG, breakpoints, heap, slots, result, last, calls, thrown>>

\* ... and return what it returned.
BreakLeave ==
    /\ Running("breakBefore", "called") /\ result.kind = "return"
    /\ stack' = Pop
    /\ UNCHANGED <<DEBUG, breakpoints, heap, slots, log, result, last, calls, traps, hist, thrown>>

\* An exception thrown by the callee leaves the frame: no shim has a try.
Unwind ==
    /\ stack # <<>> /\ Top.pc = "called" /\ result.kind = "throw"
    /\ stack' = Pop
    /\ UNCHANGED <<DEBUG, breakpoints, heap, slots, log, result, last, calls, traps, hist, thrown>>

\* The leaf method returns a value or throws.
LeafBody(outcome) ==
    /\ RunningOriginal(Leaf, "start")
    /\ stack' = Pop
    /\ result' = outcome
    /\ thrown' = (thrown \/ outcome.kind = "throw")
    /\ hist' = hist \o <<Event("original", Leaf, Top.this, 0, Top.arg),
                         Outcome(Leaf, Top.this, outcome)>>
    /\ UNCHANGED <<DEBUG, breakpoints, heap, slots, log, last, calls, traps>>

\* myRecursiveMethod: if (foo < 1) return 1; else call
\* this.myRecursiveMethod(foo - 1).
RecBody ==
    LET slot == <<Top.this, "myRecursiveMethod">>
    IN  /\ RunningOriginal(Rec, "start")
        /\ hist' = Append(hist, Event("original", Rec, Top.this, 0, Top.arg))
        /\ IF Top.arg.n < 1
           THEN stack' = Pop /\ result' = Return(Num(1))
           ELSE /\ stack' = Append([stack EXCEPT ![Len(stack)].pc = "called"],
                                   Frame(slots[slot], Top.this, Num(Top.arg.n - 1)))
                /\ UNCHANGED result
        /\ UNCHANGED <<DEBUG, breakpoints, heap, slots, log, last, calls, traps, thrown>>

\* ... return foo * the value of the inner call.
RecReturn ==
    /\ RunningOriginal(Rec, "called") /\ result.kind = "return"
    /\ stack' = Pop
    /\ result' = Return(Num(Top.arg.n * result.val.n))
    /\ UNCHANGED <<DEBUG, breakpoints, heap, slots, log, last, calls, traps, hist, thrown>>

\* ---------------------------------------------------------------- q(value)
\* The frame of q's caller as _interpretStackFrame splits it.
CallerFrames == {<<"", "main.js", "30">>, <<"myMethod", "main.js", "14">>}

\* q(value): nothing when DEBUG is off; else write 'file:line: ' + the
\* pretty-printed value.  A TypeError of _prettyPrint leaves q.
Inspect(value, frame) ==
    LET pp == PrettyPrint(value)
    IN  /\ Idle /\ calls < MaxCalls
        /\ IF ~DEBUG
           THEN /\ last' = Last("q", Null, Null, value, value, "")
                /\ UNCHANGED <<log, calls>>
           ELSE /\ calls' = calls + 1
                /\ IF pp.ok
                   THEN /\ log' = Append(log, frame[2] \o ":" \o frame[3] \o ": " \o pp.s)
                        /\ last' = Last("q", Null, Null, value, value, "")
                   ELSE /\ last' = Last("q", Null, Null, value, Undefined,
                                        "TypeError")
                        /\ UNCHANGED log
        /\ UNCHANGED <<DEBUG, breakpoints, heap, slots, stack, result, traps, hist, thrown>>

\* ------------------------------------------------------------ specification
Init ==
    /\ DEBUG = TRUE
    /\ breakpoints = 0
    /\ heap = InitHeap
    /\ slots = InitSlots
    /\ log = <<>>
    /\ stack = <<>>
    /\ result = NoResult
    /\ last = NoCall
    /\ calls = 0
    /\ traps = 0
    /\ hist = <<>>
    /\ thrown = FALSE

Outcomes == {Return(v) : v \in CallValues} \cup {Throw(e) : e \in Exceptions}

\* The host program instruments members of window and obj, then calls them.
Next ==
    \/ \E kind \in Tags, slot \in Slots : DecorateSlot(kind, slot)
    \/ \E kind \in Tags : DecorateBadArgs(kind)
    \/ \E value \in BOOLEAN : SetDebug(value)
    \/ \E slot \in Slots : \E arg \in ArgsFor(slots[slot]) : InvokeSlot(slot, arg)
    \/ TraceEnter
    \/ TraceLeave
    \/ TimeEnter
    \/ TimeLeave
    \/ BreakEnter
    \/ BreakLeave
    \/ Unwind
    \/ \E outcome \in Outcomes : LeafBody(outcome)
    \/ RecBody
    \/ RecReturn

Spec == Init /\ [][Next]_vars

\* The instrumentation calls alone.
NextWrap ==
    \/ \E kind \in Tags, fn \in Refs(heap) : DecorateFn(kind, fn)
    \/ \E kind \in Tags, slot \in Slots : DecorateSlot(kind, slot)
    \/ \E kind \in Tags : DecorateBadArgs(kind)
    \/ \E value \in BOOLEAN : SetDebug(value)

SpecWrap == Init /\ [][NextWrap]_vars

\* The immediate inspector alone.
NextInspect ==
    \/ \E value \in Values, frame \in CallerFrames : Inspect(value, frame)
    \/ \E value \in BOOLEAN : SetDebug(value)

SpecInspect == Init /\ [][NextInspect]_vars

\* ------------------------------------------------------------------ chains
\* The tags met by following wraps from fn down to a function that is no
\* decorator, outermost first.
RECURSIVE ChainTags(_, _)
ChainTags(h, fn) ==
    IF ~h[fn].isDecorator THEN <<>>
    ELSE <<h[fn].tag>> \o ChainTags(h, h[fn].wraps)

Count(seq, x) == Cardinality({i \in 1 .. Len(seq) : seq[i] = x})
IsWrapCall(l) == l.op \in Tags /\ l.threw = ""

\* The step is the call kind(fn), or the call of kind on the slot.
FnStep(kind, fn) ==
    last'.op = kind /\ last'.fin = fn /\ DecorateFn(kind, fn)
SlotStep(kind, slot) ==
    last'.op = kind /\ last'.fin = slots[slot] /\ DecorateSlot(kind, slot)

\* C1: no chain reachable by following wraps holds two records with the same
\* tag, and applying a kind to a function whose chain already holds a record
\* of that kind changes nothing and returns that same function, whose chain
\* holds exactly one record of the kind.
NoDuplicateTag ==
    \A r \in Refs(heap) : \A t \in Tags : Count(ChainTags(heap, r), t) <= 1
NoOpOn(kind, fn) ==
    Count(ChainTags(heap, fn), kind) > 0 =>
        /\ heap' = heap /\ slots' = slots /\ breakpoints' = breakpoints
        /\ last'.fout = fn
        /\ Count(ChainTags(heap', last'.fout), kind) = 1
ReapplyIsNoOp ==
    \A kind \in Tags :
        /\ \A fn \in Refs(heap) : FnStep(kind, fn) => NoOpOn(kind, fn)
        /\ \A slot \in Slots : SlotStep(kind, slot) => NoOpOn(kind, slots[slot])
C1_OneRecordPerTag == []NoDuplicateTag /\ [][ReapplyIsNoOp]_vars

\* A kind was applied again to a chain that holds it below the outermost
\* record, and the same record came back.
C1_Witness ==
    /\ IsWrapCall(last) /\ DEBUG
    /\ last.fout = last.fin
    /\ heap[last.fin].isDecorator /\ heap[last.fin].tag # last.op
    /\ Count(ChainTags(heap, last.fin), last.op) = 1

\* C7: the three forms differ only in where the result is stored.  The
\* function form changes no slot; a slot form overwrites only the slot it
\* names and returns the value now in that slot; and in every form the chain
\* of the result has the tags of the chain of the function named, with the
\* kind in front when the flag is on and the kind is not there yet.
ExpectedTags(h, dbg, kind, fn) ==
    IF dbg /\ Count(ChainTags(h, fn), kind) = 0
    THEN <<kind>> \o ChainTags(h, fn)
    ELSE ChainTags(h, fn)
ResultOf(kind, fn) ==
    /\ last'.fin = fn
    /\ last'.fout = fn \/ (last'.fout \notin Refs(heap) /\ heap'[last'.fout].wraps = fn)
    /\ ChainTags(heap', last'.fout) = ExpectedTags(heap, DEBUG, kind, fn)
FunctionForm ==
    \A kind \in Tags, fn \in Refs(heap) :
        FnStep(kind, fn) => slots' = slots /\ ResultOf(kind, fn)
SlotForm ==
    \A kind \in Tags, slot \in Slots :
        SlotStep(kind, slot) =>
            /\ \A s \in Slots \ {slot} : slots'[s] = slots[s]
            /\ slots'[slot] = last'.fout
            /\ ResultOf(kind, slots[slot])
C7_AttachmentForms == [][FunctionForm /\ SlotForm]_vars

\* obj.myMethod was decorated in place; window.myFunction, which held the
\* same function, and obj's other member are as they were.
C7_Witness ==
    /\ IsWrapCall(last)
    /\ last.fin = Leaf /\ heap[last.fout].isDecorator
    /\ slots[<<"obj", "myMethod">>] = last.fout
    /\ slots[<<"window", "myFunction">>] = Leaf
    /\ slots[<<"obj", "myRecursiveMethod">>] = Rec

\* ------------------------------------------------------------- invocations
Finished == Idle /\ hist # <<>>
Kinds(h) == [i \in 1 .. Len(h) |-> h[i].e]
IsShim(fn, tag) == heap[fn].isDecorator /\ heap[fn].tag = tag

\* C2: a function decorated with trace and time, whichever first, runs each
\* behaviour once around the original, the outer layer's steps outermost.
\* Stated for the invocations in which the original returned.
StackedOrder(outer) ==
    IF outer = "time"
    THEN <<"invoke", "timer", "Entering", "original", "return", "Leaving", "timed">>
    ELSE <<"invoke", "Entering", "timer", "original", "return", "timed", "Leaving">>
C2_StackedOnceInOrder ==
    (/\ Finished
     /\ ChainTags(heap, hist[1].fn) \in {<<"time", "trace">>, <<"trace", "time">>}
     /\ \E i \in 1 .. Len(hist) : hist[i].e = "return")
    => Kinds(hist) = StackedOrder(heap[hist[1].fn].tag)

\* C3: the flag is read when a function is decorated and never after.  A
\* decoration made while the flag is off changes nothing and returns the
\* function the slot held, and a call of a function that is no decorator logs
\* nothing; a shim, once installed, writes its lines whatever the flag is.
DisabledWrapIsNoOp ==
    \A kind \in Tags, slot \in Slots :
        (SlotStep(kind, slot) /\ ~DEBUG) =>
            /\ heap' = heap /\ slots' = slots /\ breakpoints' = breakpoints
            /\ last'.fout = slots[slot]
UndecoratedLogsNothing ==
    (hist # <<>> /\ ~heap[hist[1].fn].isDecorator) => Len(log) = hist[1].d
ShimIgnoresFlag ==
    /\ (TraceEnter /\ PrettyPrint(Top.arg).ok) => Len(log') = Len(log) + 1
    /\ (TraceLeave /\ PrettyPrint(result.val).ok) => Len(log') = Len(log) + 1
    /\ TimeLeave => Len(log') = Len(log) + 1
    /\ BreakEnter => Len(log') = Len(log) + 1
C3_FlagLatchedAtWrap ==
    []UndecoratedLogsNothing /\ [][DisabledWrapIsNoOp /\ ShimIgnoresFlag]_vars

\* A call made with the flag off has written to the log.
C3_Witness == ~DEBUG /\ stack # <<>> /\ Len(log) > hist[1].d

\* C4: while no call has ended by an exception, the k-th nested entry of a
\* traced function reports depth k, its "Leaving" line carries the same text,
\* the entries leave in reverse order, and the counter is 0 again when the
\* outermost call has returned.
TraceFrames ==
    {i \in 1 .. Len(stack) : IsShim(stack[i].fn, "trace") /\ stack[i].pc = "called"}
Nesting(i) == Cardinality({j \in TraceFrames : j <= i /\ stack[j].fn = stack[i].fn})
DepthSuffix(k) == IF k > 1 THEN " [" \o ToString(k) \o "]" ELSE ""
DepthIsNesting ==
    \A i \in TraceFrames :
        /\ stack[i].depth = Nesting(i)
        /\ stack[i].traceString =
               heap[stack[i].fn].funcName \o "(" \o PrettyPrint(stack[i].arg).s \o ")"
                   \o DepthSuffix(Nesting(i))
CounterIsNesting ==
    \A r \in Refs(heap) :
        heap[r].recursionDepth =
            Cardinality({i \in TraceFrames : stack[i].fn = r})
EntriesOf(r) ==
    SelectSeq(hist, LAMBDA ev : ev.fn = r /\ ev.e \in {"Entering", "Leaving"})
ReverseExits ==
    (Finished /\ result.kind = "return") =>
        \A r \in Refs(heap) :
            LET ev == EntriesOf(r)
                n == Len(ev) \div 2
            IN  /\ Len(ev) = 2 * n
                /\ \A k \in 1 .. n :
                      /\ ev[k].e = "Entering" /\ ev[k].d = k
                      /\ ev[2 * n + 1 - k].e = "Leaving" /\ ev[2 * n + 1 - k].d = k
TraceLines ==
    /\ (TraceEnter /\ ~thrown') =>
           log' = Append(log, "Entering " \o stack'[Len(stack)].traceString)
    /\ (TraceLeave /\ ~thrown') =>
           log' = Append(log, "Leaving " \o Top.traceString \o " -> "
                                  \o PrettyPrint(result.val).s)
C4_RecursionDepth ==
    /\ [](~thrown => (DepthIsNesting /\ CounterIsNesting /\ ReverseExits))
    /\ [][TraceLines]_vars

\* The traced recursive method has returned from a call that nested twice.
C4_Witness ==
    /\ Finished /\ ~thrown /\ result.kind = "return"
    /\ IsShim(hist[1].fn, "trace")
    /\ Len(EntriesOf(hist[1].fn)) = 4
    /\ \E i \in 1 .. Len(log) : log[i] = "Entering myRecursiveMethod(0) [2]"
    /\ heap[hist[1].fn].recursionDepth = 0

\* C5: when no call is in progress every trace counter is back at 0, the
\* value it had before the first call, however the calls ended.
C5_CounterRestoredOnEveryExit ==
    Idle => \A r \in Refs(heap) : heap[r].recursionDepth = 0

\* C6: through any chain of trace and time layers the original runs once,
\* with the receiver and argument of the call, and the caller gets what the
\* original returned or threw.
OriginalEvents(h) == SelectSeq(h, LAMBDA ev : ev.e = "original")
OutcomeEvents(h) == SelectSeq(h, LAMBDA ev : ev.e \in {"return", "throw"})
C6_Transparent ==
    (/\ Finished
     /\ Bottom(heap, hist[1].fn) = Leaf
     /\ \A i \in 1 .. Len(ChainTags(heap, hist[1].fn)) :
            ChainTags(heap, hist[1].fn)[i] \in {"trace", "time"})
    => /\ Len(OriginalEvents(hist)) = 1
       /\ OriginalEvents(hist)[1].this = hist[1].this
       /\ OriginalEvents(hist)[1].v = hist[1].v
       /\ result.kind = OutcomeEvents(hist)[1].e
       /\ result.val = OutcomeEvents(hist)[1].v
       /\ result.exc = OutcomeEvents(hist)[1].exc

\* C9: breakpoint records carry distinct indices that grow in the order of
\* creation and never change; a call of one logs the line with its own
\* index, then reaches the trap, then calls the function it wraps.
BreakRecords == {r \in Refs(heap) : IsShim(r, "breakBefore")}
IndicesGrow ==
    /\ \A r \in BreakRecords : heap[r].breakpointNum \in 1 .. breakpoints
    /\ \A r1, r2 \in BreakRecords :
           r1 < r2 => heap[r1].breakpointNum < heap[r2].breakpointNum
IndexFixed ==
    \A r \in BreakRecords : heap'[r].breakpointNum = heap[r].breakpointNum
BreakThenCall ==
    BreakEnter =>
        /\ log' = Append(log, "Breakpoint " \o ToString(heap[Top.fn].breakpointNum)
                                  \o " reached")
        /\ traps' = traps + 1
        /\ Kinds(hist') = Kinds(hist) \o <<"Breakpoint", "trap">>
        /\ stack'[Len(stack')] = Frame(heap[Top.fn].wraps, Top.this, Top.arg)
C9_BreakpointIndex == []IndicesGrow /\ [][IndexFixed /\ BreakThenCall]_vars

\* The second of two breakpoint records was called and logged its index.
C9_Witness ==
    /\ Cardinality(BreakRecords) = 2
    /\ traps > 0
    /\ \E i \in 1 .. Len(log) : log[i] = "Breakpoint 2 reached"

\* ------------------------------------------------------------ the inspector
\* C8: _prettyPrint returns a string for every value, so no call of q()
\* ends in an error.
C8_PrettyPrintNeverFails == last.op = "q" => last.threw = ""

\* C10: q(value) returns value; with the flag off it changes nothing, with
\* the flag on it appends the one line 'file:line: ' and the printed value.
C10_InspectReturnsValue ==
    [][\A value \in Values, frame \in CallerFrames :
          (last'.op = "q" /\ last'.vin = value /\ Inspect(value, frame)) =>
              /\ last'.vout = value
              /\ IF DEBUG
                 THEN log' = Append(log, frame[2] \o ":" \o frame[3] \o ": "
                                             \o PrettyPrint(value).s)
                 ELSE log' = log]_vars

\* ---------------------------------------------------------------------------
\* The function reached from fn by following wraps until a non-decorator.
RECURSIVE FollowWraps(_, _)
FollowWraps(h, fn) ==
    IF h[fn].isDecorator THEN FollowWraps(h, h[fn].wraps) ELSE fn

Decorators(h) == {r \in Refs(h) : h[r].isDecorator}

InnermostIsBottomOfChain ==
    \A r \in Decorators(heap) :
        /\ heap[r].decoratedFunc \in Refs(heap)
        /\ ~heap[heap[r].decoratedFunc].isDecorator
        /\ heap[r].decoratedFunc = FollowWraps(heap, r)

InnermostCopiedOrDirect ==
    \A r \in Decorators(heap) :
        LET inner == heap[r].wraps
        IN  heap[r].decoratedFunc =
                IF heap[inner].isDecorator THEN heap[inner].decoratedFunc
                                           ELSE inner

InnermostNeverChanges ==
    \A r \in Decorators(heap) :
        /\ r \in Decorators(heap')
        /\ heap'[r].decoratedFunc = heap[r].decoratedFunc
        /\ heap'[r].wraps = heap[r].wraps

\* C11: in every reachable state every decorator's decoratedFunc is a
\* non-decorator function and is the function reached by following wraps from
\* the decorator down to the first non-decorator; it is the inner decorator's
\* decoratedFunc when the inner function is a decorator and the inner function
\* itself otherwise; and no later wrap operation changes it.
C11_InnermostLink ==
    /\ [](InnermostIsBottomOfChain /\ InnermostCopiedOrDirect)
    /\ [][InnermostNeverChanges]_vars

\* A decorator stacked on a decorator by the latest wrap, in both orders of
\* original: its decoratedFunc was copied from the record below it.
C11_Witness ==
    /\ IsWrapCall(last)
    /\ last.fout \in Decorators(heap)
    /\ heap[last.fout].wraps \in Decorators(heap)
    /\ heap[last.fout].wraps # last.fout
    /\ heap[last.fout].decoratedFunc \in Originals
    /\ last.fout = Len(heap)
====
